---------------------------- MODULE Spec2Model ----------------------------
(***************************************************************************)
(* Model of the LayerBank deposit agent: the proxy-retry decorator         *)
(* retry_on_proxy_error and the Client transaction pipeline                *)
(* (src/client/client.py) together with the deposit flow (src/main.py).    *)
(*                                                                         *)
(* Five specifications share the variables:                                *)
(*   SpecRetry  the wrapper of retry_on_proxy_error around one operation   *)
(*              of a Client;                                               *)
(*   SpecSend   Client.sign_and_send_tx called on one transaction;         *)
(*   SpecWait   Client.wait_tx called on one transaction hash;             *)
(*   SpecConv   Client.from_wei_main / Client.to_wei_main;                 *)
(*   Spec       the deposit flow of main().                                *)
(***************************************************************************)
EXTENDS Integers, Sequences, FiniteSets, TLC

(***************************************************************************)
(* Bounds of the model.                                                    *)
(***************************************************************************)
MaxAttemptsBound == 4
MaxVal == 2
MaxAmount == 2
MaxFeeUnit == 1
MaxNativeUnits == 1
MaxEstimate == 6
MaxBuildGas == 1
MaxStatus == 2
MaxUnits == 3

(***************************************************************************)
(* Program constants.                                                      *)
(***************************************************************************)
DefaultMaxAttempts == 3
EstimatedGasUnits == 70000
FallbackGasUnits == 70000
MinPriorityFee == 1000000
FallbackGasLimit == 300000
WaitMaxAttempts == 50
PollInterval == 5

VARIABLES
    \* ---- retry_on_proxy_error.wrapper
    w_pc,               \* "idle" | "loop" | "sleep" | "returned" | "raised"
    max_attempts,       \* decorator parameter
    fallback_no_proxy,  \* decorator parameter
    attempts,           \* local: attempts
    last_error,         \* local: last_error (0 = None, else index of the failed invocation)
    hist,               \* invocations of func so far, with their outcomes
    w_result,           \* value returned by the wrapper (0 = nothing returned)
    w_raised,           \* exception leaving the wrapper
    sleeps,             \* completed asyncio.sleep(1) calls
    disable_calls,      \* times self._disable_proxy() was called
    proxy_disabled,     \* the proxy has been switched off
    \* ---- Client pipeline and main()
    pc,                 \* position of the flow
    stage,              \* "none" | "approve" | "supply" | "call"
    amount_in,          \* main: amount_in
    erc20_balance,      \* main: erc20_balance
    native_balance,     \* main: native_balance
    gas,                \* main: gas (pre-flight fee estimate)
    current_allowance,  \* main: current_allowance
    base_fee,           \* prepare_tx: base_fee
    tx,                 \* the TxParams dict being prepared / built / signed
    without_gas,        \* sign_and_send_tx: without_gas
    est,                \* what happened at the estimate_gas call
    attempt,            \* wait_tx: polls completed without a result
    success,            \* wait_tx: return value ("none" while not returned)
    sent,               \* broadcasts per stage
    receipt,            \* receipt observed by wait_tx per stage
    approve,            \* approve_usdc: outcome and what its verification saw
    failure,            \* the RPC failure surfaced to an operation's caller
    polls,              \* wait_tx: get_transaction_receipt calls made
    last_poll,          \* wait_tx: what the poll of this iteration yielded
    wait_time,          \* wait_tx: time units slept so far
    balance_raised,     \* the balanceOf call of get_erc20_balance raised
    allowance_raised,   \* the allowance call of main's get_allowance raised
    \* ---- Client.to_wei_main / Client.from_wei_main
    cv_pc,              \* "idle" | "from" | "to" | "done" | "raised"
    cv_token,           \* a token_address was given
    cv_decimals,        \* decimals() of that token
    cv_x,               \* from_wei_main: number (base units)
    cv_human,           \* the human-unit number (coef * 10^exp)
    cv_back,            \* to_wei_main: the integer returned (coef * 10^exp)
    cv_scale,           \* exponent of the unit used by the last conversion
    cv_round,           \* the to_wei_main call converts from_wei_main's result
    cv_raised           \* exception leaving the conversion

retryVars == <<w_pc, max_attempts, fallback_no_proxy, attempts, last_error, hist,
               w_result, w_raised, sleeps, disable_calls, proxy_disabled>>

flowVars == <<pc, stage, amount_in, erc20_balance, native_balance,
              gas, current_allowance, base_fee, tx, without_gas, est, attempt,
              success, sent, receipt, approve, failure>>

waitVars == <<polls, last_poll, wait_time>>

readVars == <<balance_raised, allowance_raised>>

convVars == <<cv_pc, cv_token, cv_decimals, cv_x, cv_human, cv_back, cv_scale,
              cv_round, cv_raised>>

vars == <<retryVars, flowVars, waitVars, readVars, convVars>>

NoError == [type |-> "none", carries |-> 0]

(***************************************************************************)
(* retry_on_proxy_error (client.py 27-54)                                  *)
(***************************************************************************)

\* The wrapper calls self._disable_proxy(); class Client (client.py 57-341)
\* defines no attribute of that name, so the call raises AttributeError.
ClientHasDisableProxy == FALSE

\* line 35: while attempts < max_attempts
LoopContinues(a, m) == a < m

\* line 42: if attempts == max_attempts and fallback_no_proxy
ShouldFallback(a, m, fb) == a = m /\ fb

\* Outcome of one invocation of func, appended to the history.
Invocation(out, v) == [out |-> out, val |-> v]

InitRetryVars ==
    /\ w_pc = "loop"
    /\ max_attempts \in 0..MaxAttemptsBound
    /\ fallback_no_proxy \in BOOLEAN
    /\ attempts = 0
    /\ last_error = 0
    /\ hist = <<>>
    /\ w_result = 0
    /\ w_raised = NoError
    /\ sleeps = 0
    /\ disable_calls = 0
    /\ proxy_disabled = FALSE

IdleRetryVars ==
    /\ w_pc = "idle"
    /\ max_attempts = DefaultMaxAttempts
    /\ fallback_no_proxy = TRUE
    /\ attempts = 0
    /\ last_error = 0
    /\ hist = <<>>
    /\ w_result = 0
    /\ w_raised = NoError
    /\ sleeps = 0
    /\ disable_calls = 0
    /\ proxy_disabled = FALSE

\* A mutant of InvokeOk: the result of func is awaited but not returned.
InvokeOk_NoReturn ==
    /\ w_pc = "loop"
    /\ LoopContinues(attempts, max_attempts)
    /\ \E v \in 1..MaxVal : hist' = Append(hist, Invocation("ok", v))
    /\ UNCHANGED <<w_pc, max_attempts, fallback_no_proxy, attempts, last_error,
                   w_result, w_raised, sleeps, disable_calls, proxy_disabled>>
    /\ UNCHANGED <<flowVars, waitVars, readVars, convVars>>

\* lines 35-37: func returns a value, the wrapper returns it.
InvokeOk ==
    /\ w_pc = "loop"
    /\ LoopContinues(attempts, max_attempts)
    /\ \E v \in 1..MaxVal :
         /\ hist' = Append(hist, Invocation("ok", v))
         /\ w_result' = v
    /\ w_pc' = "returned"
    /\ UNCHANGED <<max_attempts, fallback_no_proxy, attempts, last_error,
                   w_raised, sleeps, disable_calls, proxy_disabled>>
    /\ UNCHANGED <<flowVars, waitVars, readVars, convVars>>

\* A mutant of InvokeOtherError: every exception of func is handled like a
\* proxy error (counted, followed by the sleep and another iteration).
InvokeOtherError_Retried ==
    /\ w_pc = "loop"
    /\ LoopContinues(attempts, max_attempts)
    /\ hist' = Append(hist, Invocation("other", 0))
    /\ attempts' = attempts + 1
    /\ last_error' = Len(hist')
    /\ w_pc' = "sleep"
    /\ UNCHANGED <<max_attempts, fallback_no_proxy, w_raised,
                   w_result, sleeps, disable_calls, proxy_disabled>>
    /\ UNCHANGED <<flowVars, waitVars, readVars, convVars>>

\* lines 35-38: func raises an exception that is not ClientHttpProxyError;
\* no except clause matches and it leaves the wrapper.
InvokeOtherError ==
    /\ w_pc = "loop"
    /\ LoopContinues(attempts, max_attempts)
    /\ hist' = Append(hist, Invocation("other", 0))
    /\ w_raised' = [type |-> "other", carries |-> Len(hist')]
    /\ w_pc' = "raised"
    /\ UNCHANGED <<max_attempts, fallback_no_proxy, attempts, last_error,
                   w_result, sleeps, disable_calls, proxy_disabled>>
    /\ UNCHANGED <<flowVars, waitVars, readVars, convVars>>

\* lines 38-49: func raises ClientHttpProxyError.
InvokeProxyError ==
    /\ w_pc = "loop"
    /\ LoopContinues(attempts, max_attempts)
    /\ attempts' = attempts + 1
    /\ IF ShouldFallback(attempts + 1, max_attempts, fallback_no_proxy)
         THEN \* lines 43-48
              /\ disable_calls' = disable_calls + 1
              /\ IF ClientHasDisableProxy
                   THEN /\ proxy_disabled' = TRUE
                        /\ \/ \E v \in 1..MaxVal :   \* line 46 returns
                                /\ hist' = hist \o <<Invocation("proxy", 0), Invocation("ok", v)>>
                                /\ w_result' = v
                                /\ w_pc' = "returned"
                                /\ last_error' = Len(hist) + 1
                                /\ w_raised' = w_raised
                           \/ /\ hist' = hist \o <<Invocation("proxy", 0), Invocation("proxy", 0)>>
                              /\ last_error' = Len(hist) + 2      \* line 48
                              /\ w_pc' = "sleep"                  \* line 49
                              /\ UNCHANGED <<w_result, w_raised>>
                           \/ /\ hist' = hist \o <<Invocation("proxy", 0), Invocation("other", 0)>>
                              /\ last_error' = Len(hist) + 1
                              /\ w_raised' = [type |-> "other", carries |-> Len(hist) + 2]
                              /\ w_pc' = "raised"
                              /\ w_result' = w_result
                   ELSE \* line 44 raises AttributeError inside the except block
                        /\ hist' = Append(hist, Invocation("proxy", 0))
                        /\ last_error' = Len(hist) + 1
                        /\ w_raised' = [type |-> "AttributeError", carries |-> 0]
                        /\ w_pc' = "raised"
                        /\ UNCHANGED <<w_result, proxy_disabled>>
         ELSE /\ hist' = Append(hist, Invocation("proxy", 0))
              /\ last_error' = Len(hist) + 1                      \* line 40
              /\ w_pc' = "sleep"                                  \* line 49
              /\ UNCHANGED <<w_result, w_raised, disable_calls, proxy_disabled>>
    /\ UNCHANGED <<max_attempts, fallback_no_proxy, sleeps>>
    /\ UNCHANGED <<flowVars, waitVars, readVars, convVars>>

\* line 49: await asyncio.sleep(1) completes, back to the loop test.
RetrySleep ==
    /\ w_pc = "sleep"
    /\ sleeps' = sleeps + 1
    /\ w_pc' = "loop"
    /\ UNCHANGED <<max_attempts, fallback_no_proxy, attempts, last_error, hist,
                   w_result, w_raised, disable_calls, proxy_disabled>>
    /\ UNCHANGED <<flowVars, waitVars, readVars, convVars>>

\* lines 35, 50: the loop test fails, ValueError carrying last_error is raised.
RaiseTerminal ==
    /\ w_pc = "loop"
    /\ ~LoopContinues(attempts, max_attempts)
    /\ w_raised' = [type |-> "ValueError", carries |-> last_error]
    /\ w_pc' = "raised"
    /\ UNCHANGED <<max_attempts, fallback_no_proxy, attempts, last_error, hist,
                   w_result, sleeps, disable_calls, proxy_disabled>>
    /\ UNCHANGED <<flowVars, waitVars, readVars, convVars>>

(***************************************************************************)
(* Client: values and pure helpers                                         *)
(***************************************************************************)

Errs == {"proxy", "other"}

NoFailure == [op |-> "none", rpc |-> "none", err |-> "none", tries |-> 0]

\* An RPC call made by a Client method fails.  The methods of Client await the
\* web3 call directly (no def in client.py 92-341 carries the decorator
\* @retry_on_proxy_error): the call was invoked once when its exception
\* reaches the method.
RpcFailure(op, rpc, err) == [op |-> op, rpc |-> rpc, err |-> err, tries |-> 1]

\* An exception raised by local code (no RPC involved).
LocalFailure(op, err) == [op |-> op, rpc |-> "none", err |-> err, tries |-> 0]

\* client.py 177-181 / 195-199: the unit-name table.
SupportedDecimals == {6, 9, 18}

\* decimals() values a token contract may report.
DecimalsChoices == SupportedDecimals \cup {8}

\* client.py 87: self.eip_1559 = True
eip_1559 == TRUE

\* Gas prices the node may report to prepare_tx (wei).
GasPrices == {0, 10, 9999999, 10000000, 25000000}

EmptyTx == [keys |-> {}, value |-> 0, gasPrice |-> 0, maxFeePerGas |-> 0,
            maxPriorityFeePerGas |-> 0, gas |-> 0]

NoEst == [wanted |-> FALSE, called |-> FALSE, ok |-> FALSE, value |-> 0]

NoPoll == [kind |-> "none", status |-> 0]

NoApprove == [result |-> "none", confirmed |-> FALSE, read_raised |-> FALSE,
              new_allowance |-> 0, log_raised |-> FALSE]

\* client.py 161: (base_fee + max_priority_fee) * estimated_gas
FeePreview(bf, prio) == (bf + prio) * EstimatedGasUnits

\* client.py 167: fallback_gas_price * 70_000
FeeFallback(gp) == gp * FallbackGasUnits

\* client.py 224: int(base_fee * 0.1) or 1_000_000.  For an integer base_fee
\* below 2^53 the double product truncates to base_fee \div 10; Python's `or`
\* takes the right operand only when the left one is 0.
PriorityFee(bf) == IF bf \div 10 # 0 THEN bf \div 10 ELSE MinPriorityFee

\* client.py 225: int(base_fee * 1.5 + max_priority_fee)
MaxFee(bf, tip) == bf + (bf \div 2) + tip

\* client.py 212-234: the TxParams prepare_tx returns.
PreparedTx(value, eip, price) ==
    LET head == [EmptyTx EXCEPT
                   !.keys = {"from", "nonce", "chainId"}
                            \cup (IF value > 0 THEN {"value"} ELSE {}),
                   !.value = IF value > 0 THEN value ELSE 0]
    IN  IF eip
          THEN [head EXCEPT
                  !.keys = @ \cup {"maxFeePerGas", "maxPriorityFeePerGas"},
                  !.maxFeePerGas = MaxFee(price, PriorityFee(price)),
                  !.maxPriorityFeePerGas = PriorityFee(price)]
          ELSE [head EXCEPT !.keys = @ \cup {"gasPrice"}, !.gasPrice = price]

\* transaction['gas'] = g
WithGas(t, g) == [t EXCEPT !.keys = @ \cup {"gas"}, !.gas = g]

\* client.py 250: int(gas_estimate * 1.2); the double product of an integer
\* estimate below 2^50 truncates to floor(6 * estimate / 5).
GasWithMargin(e) == (e * 6) \div 5

\* client.py 243-245: the estimation block is entered.
EstimationWanted(t, wg) == ~wg /\ "gas" \notin t.keys

\* client.py 247-249: `del tx_copy['gasPrice']` raises KeyError unless the
\* dict has that key, so estimate_gas is reached only for a gasPrice request.
EstimatorReached(t) == "gasPrice" \in t.keys

\* A mutant of GetAllowance: an error of the call yields the largest
\* allowance instead of 0.
GetAllowance_MaxOnError(raised, v) == IF raised THEN MaxAmount ELSE v

\* client.py 97-107: get_allowance returns the value read, or 0 on any error.
GetAllowance(raised, v) == IF raised THEN 0 ELSE v

\* client.py 137-146: get_erc20_balance returns the value read, or 0 on any error.
GetErc20Balance(raised, v) == IF raised THEN 0 ELSE v

\* A mutant of NeedsApprove: the comparison is not strict.
NeedsApprove_NotStrict(allowance, amount) == allowance <= amount

\* main.py 80: if current_allowance < amount_in
NeedsApprove(allowance, amount) == allowance < amount

\* client.py 317-327: the value approve_usdc returns after a confirmed
\* approve; log_ok says that the decimals reads of the log line of the branch
\* taken (320 or 323) all succeeded, otherwise the except at 325 returns True.
VerifyResult(new_allowance, amount, log_ok) ==
    IF new_allowance >= amount THEN TRUE ELSE ~log_ok

IdleWaitVars ==
    /\ polls = 0
    /\ last_poll = NoPoll
    /\ wait_time = 0

IdleReadVars ==
    /\ balance_raised = FALSE
    /\ allowance_raised = FALSE

IdleFlowVars ==
    /\ IdleWaitVars
    /\ IdleReadVars
    /\ pc = "idle"
    /\ stage = "none"
    /\ amount_in = 0
    /\ erc20_balance = 0
    /\ native_balance = 0
    /\ gas = 0
    /\ current_allowance = -1
    /\ base_fee = 0
    /\ tx = EmptyTx
    /\ without_gas = FALSE
    /\ est = NoEst
    /\ attempt = 0
    /\ success = "none"
    /\ sent = [approve |-> 0, supply |-> 0, call |-> 0]
    /\ receipt = [approve |-> "none", supply |-> "none", call |-> "none"]
    /\ approve = NoApprove
    /\ failure = NoFailure

\* sys.exit(1), directly or through the except clauses of main (113-115,
\* 109-111); f is the exception that ended the run.
Exit1(f) ==
    /\ pc' = "exit1"
    /\ failure' = f

(***************************************************************************)
(* main(): balance pre-check (main.py 57-73)                               *)
(***************************************************************************)

\* main.py 58, client.py 170-185: amount_in = to_wei_main(amount, usdc).
ToWeiAmount ==
    /\ pc = "to_wei"
    /\ \/ \E e \in Errs :
            /\ Exit1(RpcFailure("to_wei_main", "decimals", e))
            /\ UNCHANGED amount_in
       \/ /\ \E d \in DecimalsChoices : d \notin SupportedDecimals
          /\ Exit1(LocalFailure("to_wei_main", "RuntimeError"))
          /\ UNCHANGED amount_in
       \/ /\ \E d \in DecimalsChoices : d \in SupportedDecimals
          /\ amount_in' \in 0..MaxAmount
          /\ pc' = "balances"
          /\ UNCHANGED failure
    /\ UNCHANGED <<stage, erc20_balance, native_balance, gas,
                   current_allowance, base_fee, tx, without_gas, est, attempt,
                   success, sent, receipt, approve>>
    /\ UNCHANGED <<retryVars, waitVars, readVars, convVars>>

\* main.py 59-61: the three reads succeed as far as main is concerned.
\* get_erc20_balance swallows its error; get_tx_fee (client.py 155-167) falls
\* back to gas_price when fee_history or max_priority_fee fails.
ReadBalances ==
    /\ pc = "balances"
    /\ \E raised \in BOOLEAN, v \in 0..MaxAmount :
          /\ erc20_balance' = GetErc20Balance(raised, v)
          /\ balance_raised' = raised
    /\ \E n \in 0..MaxNativeUnits : native_balance' = n * EstimatedGasUnits
    /\ \/ \E bf \in 0..MaxFeeUnit, prio \in 0..MaxFeeUnit : gas' = FeePreview(bf, prio)
       \/ \E gp \in 0..MaxFeeUnit : gas' = FeeFallback(gp)
    /\ pc' = "precheck"
    /\ UNCHANGED <<stage, amount_in, current_allowance, base_fee,
                   tx, without_gas, est, attempt, success, sent, receipt,
                   approve, failure>>
    /\ UNCHANGED <<allowance_raised, retryVars, waitVars, convVars>>

\* main.py 60-61: get_balance raises, or get_tx_fee raises because the
\* fallback gas_price read (client.py 166) fails too.
ReadBalancesFail ==
    /\ pc = "balances"
    /\ \E e \in Errs :
         \/ Exit1(RpcFailure("get_native_balance", "get_balance", e))
         \/ Exit1(RpcFailure("get_tx_fee", "gas_price", e))
    /\ UNCHANGED <<stage, amount_in, erc20_balance, native_balance,
                   gas, current_allowance, base_fee, tx, without_gas, est,
                   attempt, success, sent, receipt, approve>>
    /\ UNCHANGED <<retryVars, waitVars, readVars, convVars>>

\* A mutant of PreCheck: the native balance is not compared with the fee.
PreCheck_NoGasCheck ==
    /\ pc = "precheck"
    /\ \/ \E e \in Errs : Exit1(RpcFailure("from_wei_main", "decimals", e))
       \/ /\ amount_in > erc20_balance
          /\ Exit1(LocalFailure("main", "insufficient USDC"))
       \/ /\ ~(amount_in > erc20_balance)
          /\ pc' = "allowance"
          /\ UNCHANGED failure
    /\ UNCHANGED <<stage, amount_in, erc20_balance, native_balance,
                   gas, current_allowance, base_fee, tx, without_gas, est,
                   attempt, success, sent, receipt, approve>>
    /\ UNCHANGED <<retryVars, waitVars, readVars, convVars>>

\* main.py 63-73: the log lines read decimals again, then the two checks.
PreCheck ==
    /\ pc = "precheck"
    /\ \/ \E e \in Errs : Exit1(RpcFailure("from_wei_main", "decimals", e))
       \/ /\ amount_in > erc20_balance
          /\ Exit1(LocalFailure("main", "insufficient USDC"))
       \/ /\ ~(amount_in > erc20_balance)
          /\ native_balance < gas
          /\ Exit1(LocalFailure("main", "insufficient gas"))
       \/ /\ ~(amount_in > erc20_balance)
          /\ ~(native_balance < gas)
          /\ pc' = "allowance"
          /\ UNCHANGED failure
    /\ UNCHANGED <<stage, amount_in, erc20_balance, native_balance,
                   gas, current_allowance, base_fee, tx, without_gas, est,
                   attempt, success, sent, receipt, approve>>
    /\ UNCHANGED <<retryVars, waitVars, readVars, convVars>>

(***************************************************************************)
(* main(): allowance step (main.py 78-84)                                  *)
(***************************************************************************)

\* main.py 79-80, 83-84: read the allowance and branch.
ReadAllowance ==
    /\ pc = "allowance"
    /\ \E raised \in BOOLEAN, v \in 0..MaxAmount :
          /\ current_allowance' = GetAllowance(raised, v)
          /\ allowance_raised' = raised
    /\ IF NeedsApprove(current_allowance', amount_in)
         THEN pc' = "log_approve" /\ stage' = stage
         ELSE pc' = "prepare" /\ stage' = "supply"
    /\ UNCHANGED <<amount_in, erc20_balance, native_balance, gas,
                   base_fee, tx, without_gas, est, attempt, success, sent,
                   receipt, approve, failure>>
    /\ UNCHANGED <<balance_raised, retryVars, waitVars, convVars>>

\* main.py 81-82: the log line reads decimals, then approve_usdc is called.
LogApproveNeeded ==
    /\ pc = "log_approve"
    /\ \/ /\ \E e \in Errs : Exit1(RpcFailure("from_wei_main", "decimals", e))
          /\ UNCHANGED stage
       \/ /\ stage' = "approve"
          /\ pc' = "ap_begin"
          /\ UNCHANGED failure
    /\ UNCHANGED <<amount_in, erc20_balance, native_balance, gas,
                   current_allowance, base_fee, tx, without_gas, est, attempt,
                   success, sent, receipt, approve>>
    /\ UNCHANGED <<retryVars, waitVars, readVars, convVars>>

(***************************************************************************)
(* Client.approve_usdc (client.py 299-334)                                 *)
(***************************************************************************)

\* client.py 302: the first log line reads decimals; an error is re-raised at
\* 332-334 and ends main.
ApproveBegin ==
    /\ pc = "ap_begin"
    /\ \/ /\ \E e \in Errs : Exit1(RpcFailure("from_wei_main", "decimals", e))
          /\ approve' = [approve EXCEPT !.result = "raised"]
       \/ /\ pc' = "prepare"
          /\ UNCHANGED <<failure, approve>>
    /\ UNCHANGED <<stage, amount_in, erc20_balance, native_balance,
                   gas, current_allowance, base_fee, tx, without_gas, est,
                   attempt, success, sent, receipt>>
    /\ UNCHANGED <<retryVars, waitVars, readVars, convVars>>

\* The locals of prepare_tx / sign_and_send_tx die with the frame that an
\* exception unwinds; a direct call of sign_and_send_tx keeps its argument.
DropLocals ==
    IF stage = "call"
      THEN UNCHANGED <<tx, base_fee, est>>
      ELSE tx' = EmptyTx /\ base_fee' = 0 /\ est' = NoEst

\* An exception inside approve_usdc leaves it through 332-334.
ApproveAfterRaise == IF stage = "approve" THEN [approve EXCEPT !.result = "raised"] ELSE approve

(***************************************************************************)
(* Client.prepare_tx (client.py 206-237)                                   *)
(***************************************************************************)

\* client.py 209-234: nonce, chain id and gas price are read, the TxParams
\* dict is returned.  Both callers pass no value (main.py 91, client.py 305).
PrepareTx ==
    /\ pc = "prepare"
    /\ \E price \in GasPrices :
         /\ base_fee' = price
         /\ tx' = PreparedTx(0, eip_1559, price)
    /\ pc' = "build"
    /\ UNCHANGED <<stage, amount_in, erc20_balance, native_balance,
                   gas, current_allowance, without_gas, est, attempt, success,
                   sent, receipt, approve, failure>>
    /\ UNCHANGED <<retryVars, waitVars, readVars, convVars>>

\* client.py 209, 210, 223, 235-237: one of the three reads raises; the
\* exception is logged and re-raised to the caller.
PrepareTxFail ==
    /\ pc = "prepare"
    /\ \E rpc \in {"get_transaction_count", "chain_id", "gas_price"}, e \in Errs :
         Exit1(RpcFailure("prepare_tx", rpc, e))
    /\ approve' = ApproveAfterRaise
    /\ DropLocals
    /\ UNCHANGED <<stage, amount_in, erc20_balance, native_balance,
                   gas, current_allowance, without_gas,
                   attempt, success, sent, receipt>>
    /\ UNCHANGED <<retryVars, waitVars, readVars, convVars>>

\* client.py 306 / main.py 90: build_transaction of the contract function
\* (web3).  The library may fill in a gas limit or leave the dict without one.
BuildTx ==
    /\ pc = "build"
    /\ \/ tx' = tx
       \/ \E g \in 1..MaxBuildGas : tx' = WithGas(tx, g)
    /\ pc' = "estimate"
    /\ UNCHANGED <<stage, amount_in, erc20_balance, native_balance,
                   gas, current_allowance, base_fee, without_gas, est, attempt,
                   success, sent, receipt, approve, failure>>
    /\ UNCHANGED <<retryVars, waitVars, readVars, convVars>>

\* build_transaction raises.
BuildTxFail ==
    /\ pc = "build"
    /\ \E e \in Errs : Exit1(RpcFailure("build_transaction", "build_transaction", e))
    /\ approve' = ApproveAfterRaise
    /\ DropLocals
    /\ UNCHANGED <<stage, amount_in, erc20_balance, native_balance,
                   gas, current_allowance, without_gas,
                   attempt, success, sent, receipt>>
    /\ UNCHANGED <<retryVars, waitVars, readVars, convVars>>

(***************************************************************************)
(* Client.sign_and_send_tx (client.py 240-260)                             *)
(***************************************************************************)

\* client.py 243-253: the gas limit of the transaction is settled.
EstimateGas ==
    /\ pc = "estimate"
    /\ IF ~EstimationWanted(tx, without_gas)
         THEN /\ tx' = tx
              /\ est' = NoEst
         ELSE IF ~EstimatorReached(tx)
                THEN \* KeyError at 248, handled at 251-253
                     /\ tx' = WithGas(tx, FallbackGasLimit)
                     /\ est' = [NoEst EXCEPT !.wanted = TRUE]
                ELSE \/ \E e \in 1..MaxEstimate :                    \* 249-250
                          /\ tx' = WithGas(tx, GasWithMargin(e))
                          /\ est' = [wanted |-> TRUE, called |-> TRUE, ok |-> TRUE, value |-> e]
                     \/ /\ tx' = WithGas(tx, FallbackGasLimit)       \* 251-253
                        /\ est' = [wanted |-> TRUE, called |-> TRUE, ok |-> FALSE, value |-> 0]
    /\ pc' = "sign"
    /\ UNCHANGED <<stage, amount_in, erc20_balance, native_balance,
                   gas, current_allowance, base_fee, without_gas, attempt,
                   success, sent, receipt, approve, failure>>
    /\ UNCHANGED <<retryVars, waitVars, readVars, convVars>>

\* client.py 255-257: the transaction is signed and broadcast, its hash is
\* returned; the callers then start wait_tx (main.py 96, client.py 312).
SignAndSend ==
    /\ pc = "sign"
    /\ sent' = [sent EXCEPT ![stage] = @ + 1]
    /\ IF stage = "call"
         THEN /\ pc' = "returned"
              /\ UNCHANGED <<tx, base_fee, est>>
         ELSE /\ pc' = "wait"
              /\ tx' = EmptyTx
              /\ base_fee' = 0
              /\ est' = NoEst
    /\ attempt' = 0
    /\ success' = "none"
    /\ UNCHANGED <<stage, amount_in, erc20_balance, native_balance,
                   gas, current_allowance, without_gas, receipt, approve, failure>>
    /\ polls' = 0
    /\ last_poll' = NoPoll
    /\ wait_time' = 0
    /\ UNCHANGED <<retryVars, readVars, convVars>>

\* client.py 256, 258-260: send_raw_transaction raises; logged and re-raised.
SignAndSendFail ==
    /\ pc = "sign"
    /\ \E e \in Errs :
         /\ failure' = RpcFailure("sign_and_send_tx", "send_raw_transaction", e)
         /\ pc' = IF stage = "call" THEN "raised" ELSE "exit1"
    /\ approve' = ApproveAfterRaise
    /\ DropLocals
    /\ UNCHANGED <<stage, amount_in, erc20_balance, native_balance,
                   gas, current_allowance, without_gas,
                   attempt, success, sent, receipt>>
    /\ UNCHANGED <<retryVars, waitVars, readVars, convVars>>

(***************************************************************************)
(* Client.wait_tx (client.py 263-296)                                      *)
(***************************************************************************)

\* A mutant of ReceiptSuccess: the status is tested for truth.
ReceiptSuccess_Truthy(status) == status # 0

\* client.py 281: if receipt['status'] == 1
ReceiptSuccess(status) == status = 1

\* A mutant of PollNothing: only TransactionNotFound is caught, another
\* exception of the poll leaves wait_tx.
PollNothing_ErrorPropagates ==
    /\ pc = "wait"
    /\ attempt < WaitMaxAttempts
    /\ polls' = polls + 1
    /\ \E k \in {"null", "notfound", "error"} :
         /\ last_poll' = [kind |-> k, status |-> 0]
         /\ IF k = "error"
              THEN /\ pc' = "raised"
                   /\ failure' = [op |-> "wait_tx", rpc |-> "get_transaction_receipt",
                                  err |-> "other", tries |-> 1]
              ELSE /\ pc' = "poll_sleep"
                   /\ failure' = failure
    /\ UNCHANGED <<stage, amount_in, erc20_balance, native_balance,
                   gas, current_allowance, base_fee, tx, without_gas, est,
                   attempt, success, sent, receipt, approve, wait_time>>
    /\ UNCHANGED <<retryVars, readVars, convVars>>

\* A mutant of WaitTimeout: the exhausted wait raises instead of returning.
WaitTimeout_Raises ==
    /\ pc = "wait"
    /\ attempt >= WaitMaxAttempts
    /\ pc' = "raised"
    /\ failure' = [op |-> "wait_tx", rpc |-> "none", err |-> "TimeoutError", tries |-> 0]
    /\ UNCHANGED <<stage, amount_in, erc20_balance, native_balance,
                   gas, current_allowance, base_fee, tx, without_gas, est,
                   attempt, success, sent, receipt, approve>>
    /\ UNCHANGED <<retryVars, waitVars, readVars, convVars>>

\* client.py 279-286: the poll yields a receipt; status 1 returns True, any
\* other status returns False.
PollReceipt ==
    /\ pc = "wait"
    /\ attempt < WaitMaxAttempts
    /\ \E status \in 0..MaxStatus :
         /\ receipt' = [receipt EXCEPT ![stage] = IF ReceiptSuccess(status) THEN "ok" ELSE "reverted"]
         /\ success' = IF ReceiptSuccess(status) THEN "true" ELSE "false"
         /\ last_poll' = [kind |-> "receipt", status |-> status]
    /\ polls' = polls + 1
    /\ pc' = "waited"
    /\ UNCHANGED <<stage, amount_in, erc20_balance, native_balance,
                   gas, current_allowance, base_fee, tx, without_gas, est,
                   attempt, sent, approve, failure>>
    /\ UNCHANGED <<wait_time, retryVars, readVars, convVars>>

\* client.py 279-291: the poll yields None, raises TransactionNotFound or
\* raises any other exception (a proxy error included); all are swallowed.
PollNothing ==
    /\ pc = "wait"
    /\ attempt < WaitMaxAttempts
    /\ polls' = polls + 1
    /\ \E k \in {"null", "notfound", "error"} : last_poll' = [kind |-> k, status |-> 0]
    /\ pc' = "poll_sleep"
    /\ UNCHANGED <<stage, amount_in, erc20_balance, native_balance,
                   gas, current_allowance, base_fee, tx, without_gas, est,
                   attempt, success, sent, receipt, approve, failure>>
    /\ UNCHANGED <<wait_time, retryVars, readVars, convVars>>

\* client.py 293: await asyncio.sleep(5), then the next iteration.
PollSleep ==
    /\ pc = "poll_sleep"
    /\ attempt' = attempt + 1
    /\ wait_time' = wait_time + PollInterval
    /\ last_poll' = NoPoll
    /\ pc' = "wait"
    /\ UNCHANGED <<stage, amount_in, erc20_balance, native_balance,
                   gas, current_allowance, base_fee, tx, without_gas, est,
                   success, sent, receipt, approve, failure>>
    /\ UNCHANGED <<polls, retryVars, readVars, convVars>>

\* client.py 277, 295-296: the range is exhausted, wait_tx returns False.
WaitTimeout ==
    /\ pc = "wait"
    /\ attempt >= WaitMaxAttempts
    /\ success' = "false"
    /\ pc' = "waited"
    /\ UNCHANGED <<stage, amount_in, erc20_balance, native_balance,
                   gas, current_allowance, base_fee, tx, without_gas, est,
                   attempt, sent, receipt, approve, failure>>
    /\ UNCHANGED <<retryVars, waitVars, readVars, convVars>>

(***************************************************************************)
(* After the wait: approve_usdc 313-330 and main 82-108                    *)
(***************************************************************************)

\* A mutant of ApproveNotConfirmed: an approve that was not confirmed is
\* prepared and sent again.
ApproveNotConfirmed_Resend ==
    /\ pc = "waited"
    /\ stage = "approve"
    /\ success = "false"
    /\ sent.approve <= 2
    /\ pc' = "prepare"
    /\ UNCHANGED <<stage, amount_in, erc20_balance, native_balance, gas,
                   current_allowance, base_fee, tx, without_gas, est,
                   sent, receipt, failure, approve>>
    /\ attempt' = 0
    /\ success' = "none"
    /\ polls' = 0
    /\ last_poll' = NoPoll
    /\ wait_time' = 0
    /\ UNCHANGED <<retryVars, readVars, convVars>>

\* client.py 328-330 and main.py 82, 86-91: the approve was not confirmed,
\* approve_usdc returns False; main does not look at the value returned and
\* goes on to the supply transaction.
ApproveNotConfirmed ==
    /\ pc = "waited"
    /\ stage = "approve"
    /\ success = "false"
    /\ approve' = [approve EXCEPT !.result = "false", !.confirmed = FALSE]
    /\ stage' = "supply"
    /\ pc' = "prepare"
    /\ UNCHANGED <<amount_in, erc20_balance, native_balance, gas,
                   current_allowance, base_fee, tx, without_gas, est,
                   sent, receipt, failure>>
    /\ attempt' = 0
    /\ success' = "none"
    /\ polls' = 0
    /\ last_poll' = NoPoll
    /\ wait_time' = 0
    /\ UNCHANGED <<retryVars, readVars, convVars>>

\* client.py 313-327 and main.py 82, 86-91: the approve was confirmed; the
\* allowance is read again and compared; main does not look at the value
\* returned and goes on to the supply transaction.
ApproveVerify ==
    /\ pc = "waited"
    /\ stage = "approve"
    /\ success = "true"
    /\ \E raised \in BOOLEAN, v \in 0..MaxAmount, log_ok \in BOOLEAN :
         approve' = [result |-> IF VerifyResult(GetAllowance(raised, v), amount_in, log_ok)
                                  THEN "true" ELSE "false",
                     confirmed |-> TRUE,
                     read_raised |-> raised,
                     new_allowance |-> GetAllowance(raised, v),
                     log_raised |-> ~log_ok]
    /\ stage' = "supply"
    /\ pc' = "prepare"
    /\ UNCHANGED <<amount_in, erc20_balance, native_balance, gas,
                   current_allowance, base_fee, tx, without_gas, est,
                   sent, receipt, failure>>
    /\ attempt' = 0
    /\ success' = "none"
    /\ polls' = 0
    /\ last_poll' = NoPoll
    /\ wait_time' = 0
    /\ UNCHANGED <<retryVars, readVars, convVars>>

\* main.py 96-108: the supply wait returned; on success the log line at 98
\* reads decimals (an error goes to 109-111), the lToken balance read at
\* 101-106 is guarded; on failure the error is logged and main returns.
SupplyReport ==
    /\ pc = "waited"
    /\ stage = "supply"
    /\ \/ /\ success = "true"
          /\ \E e \in Errs : Exit1(RpcFailure("from_wei_main", "decimals", e))
       \/ /\ pc' = "done"
          /\ UNCHANGED failure
    /\ UNCHANGED <<stage, amount_in, erc20_balance, native_balance,
                   gas, current_allowance, base_fee, tx, without_gas, est,
                   success, sent, receipt, approve>>
    /\ attempt' = 0
    /\ polls' = 0
    /\ last_poll' = NoPoll
    /\ wait_time' = 0
    /\ UNCHANGED <<retryVars, readVars, convVars>>

(***************************************************************************)
(* Client.to_wei_main / Client.from_wei_main (client.py 170-203)           *)
(***************************************************************************)

\* A decimal or integer number coef * 10^exp; integers of base units have
\* exp >= 0, so that 10^18 need not be written out.
Dec(c, e) == [coef |-> c, exp |-> e]

NoDec == Dec(-1, 0)

NoConvError == [op |-> "none", err |-> "none"]

RECURSIVE Pow10(_)
Pow10(n) == IF n <= 0 THEN 1 ELSE 10 * Pow10(n - 1)

\* A mutant of UnitNameTo: the lookup has a default.
UnitNameTo_Default(d) ==
    IF d = 6 THEN "mwei" ELSE IF d = 9 THEN "gwei" ELSE "ether"

\* client.py 177-181: the table of to_wei_main, {...}.get(decimals).
UnitNameTo(d) ==
    IF d = 6 THEN "mwei" ELSE IF d = 9 THEN "gwei" ELSE IF d = 18 THEN "ether" ELSE "none"

\* A mutant of UnitNameFrom: the second copy of the table names another unit.
UnitNameFrom_Mwei(d) ==
    IF d = 6 THEN "mwei" ELSE IF d = 9 THEN "mwei" ELSE IF d = 18 THEN "ether" ELSE "none"

\* client.py 195-199: the table of from_wei_main, {...}.get(decimals).
UnitNameFrom(d) ==
    IF d = 6 THEN "mwei" ELSE IF d = 9 THEN "gwei" ELSE IF d = 18 THEN "ether" ELSE "none"

\* client.py 185, 203: the power of ten web3 gives the unit name.
UnitExponent(u) == IF u = "mwei" THEN 6 ELSE IF u = "gwei" THEN 9 ELSE 18

\* client.py 203: w3.from_wei(number, unit): 0 for 0, else the exact decimal
\* quotient number / 10^k.
FromWei(x, k) == IF x = 0 THEN Dec(0, 0) ELSE Dec(x, 0 - k)

\* client.py 185: w3.to_wei(number, unit): 0 for 0, else number * 10^k
\* rounded down to an integer.
ToWei(h, k) ==
    IF h.coef = 0 THEN Dec(0, 0)
    ELSE IF h.exp + k >= 0 THEN Dec(h.coef, h.exp + k)
    ELSE Dec(h.coef \div Pow10(0 - (h.exp + k)), 0)

\* client.py 171-175 / 189-193: decimals of the token, 18 without a token.
DecimalsUsed == IF cv_token THEN cv_decimals ELSE 18

\* Human-unit numbers handed to to_wei_main directly.
HumanInputs == {Dec(c, e) : c \in 0..MaxUnits, e \in {0, -1, -7}}

IdleConvVars ==
    /\ cv_pc = "idle"
    /\ cv_token = FALSE
    /\ cv_decimals = 18
    /\ cv_x = 0
    /\ cv_human = NoDec
    /\ cv_back = NoDec
    /\ cv_scale = -1
    /\ cv_round = FALSE
    /\ cv_raised = NoConvError

\* client.py 188-203: from_wei_main(number, token_address) returns.
FromWeiMain ==
    /\ cv_pc = "from"
    /\ IF UnitNameFrom(DecimalsUsed) = "none"
         THEN /\ cv_raised' = [op |-> "from_wei_main", err |-> "RuntimeError"]   \* 201-202
              /\ cv_pc' = "raised"
              /\ UNCHANGED <<cv_human, cv_scale>>
         ELSE /\ cv_scale' = UnitExponent(UnitNameFrom(DecimalsUsed))
              /\ cv_human' = FromWei(cv_x, UnitExponent(UnitNameFrom(DecimalsUsed)))
              /\ cv_pc' = IF cv_round THEN "to" ELSE "done"
              /\ UNCHANGED cv_raised
    /\ UNCHANGED <<cv_token, cv_decimals, cv_x, cv_back, cv_round>>
    /\ UNCHANGED <<retryVars, flowVars, waitVars, readVars>>

\* client.py 170-185: to_wei_main(number, token_address) returns.
ToWeiMain ==
    /\ cv_pc = "to"
    /\ IF UnitNameTo(DecimalsUsed) = "none"
         THEN /\ cv_raised' = [op |-> "to_wei_main", err |-> "RuntimeError"]     \* 183-184
              /\ cv_pc' = "raised"
              /\ UNCHANGED <<cv_back, cv_scale>>
         ELSE /\ cv_scale' = UnitExponent(UnitNameTo(DecimalsUsed))
              /\ cv_back' = ToWei(cv_human, UnitExponent(UnitNameTo(DecimalsUsed)))
              /\ cv_pc' = "done"
              /\ UNCHANGED cv_raised
    /\ UNCHANGED <<cv_token, cv_decimals, cv_x, cv_human, cv_round>>
    /\ UNCHANGED <<retryVars, flowVars, waitVars, readVars>>

\* client.py 173 / 191: the decimals() call of a conversion raises.
DecimalsReadFails ==
    /\ cv_pc \in {"from", "to"}
    /\ cv_token
    /\ \E e \in Errs :
         cv_raised' = [op |-> IF cv_pc = "from" THEN "from_wei_main" ELSE "to_wei_main",
                       err |-> e]
    /\ cv_pc' = "raised"
    /\ UNCHANGED <<cv_token, cv_decimals, cv_x, cv_human, cv_back, cv_scale, cv_round>>
    /\ UNCHANGED <<retryVars, flowVars, waitVars, readVars>>

(***************************************************************************)
(* Specifications                                                          *)
(***************************************************************************)

\* The wrapper of retry_on_proxy_error around one operation.
InitRetry == InitRetryVars /\ IdleFlowVars /\ IdleConvVars

NextRetry ==
    \/ InvokeOk
    \/ InvokeOtherError
    \/ InvokeProxyError
    \/ RetrySleep
    \/ RaiseTerminal

SpecRetry == InitRetry /\ [][NextRetry]_vars

\* Transactions handed to sign_and_send_tx: a legacy request and an EIP-1559
\* request, each with or without a gas limit.
SendInputs ==
    {t \in {PreparedTx(v, eip, price) : v \in {0, 1}, eip \in BOOLEAN, price \in GasPrices} \cup
           {WithGas(PreparedTx(v, eip, price), g) :
                v \in {0, 1}, eip \in BOOLEAN, price \in GasPrices, g \in 1..MaxEstimate} : TRUE}

\* One call of Client.sign_and_send_tx(transaction, without_gas).
InitSend ==
    /\ IdleRetryVars
    /\ IdleWaitVars
    /\ IdleReadVars
    /\ IdleConvVars
    /\ pc = "estimate"
    /\ stage = "call"
    /\ amount_in = 0
    /\ erc20_balance = 0
    /\ native_balance = 0
    /\ gas = 0
    /\ current_allowance = -1
    /\ base_fee = 0
    /\ tx \in SendInputs
    /\ without_gas \in BOOLEAN
    /\ est = NoEst
    /\ attempt = 0
    /\ success = "none"
    /\ sent = [approve |-> 0, supply |-> 0, call |-> 0]
    /\ receipt = [approve |-> "none", supply |-> "none", call |-> "none"]
    /\ approve = NoApprove
    /\ failure = NoFailure

NextSend ==
    \/ EstimateGas
    \/ SignAndSend
    \/ SignAndSendFail

SpecSend == InitSend /\ [][NextSend]_vars

\* One call of Client.wait_tx(tx_hash); the event loop resumes the coroutine
\* after every await (the receipt call and the sleep complete).
InitWait ==
    /\ IdleRetryVars
    /\ IdleWaitVars
    /\ IdleReadVars
    /\ IdleConvVars
    /\ pc = "wait"
    /\ stage = "call"
    /\ amount_in = 0
    /\ erc20_balance = 0
    /\ native_balance = 0
    /\ gas = 0
    /\ current_allowance = -1
    /\ base_fee = 0
    /\ tx = EmptyTx
    /\ without_gas = FALSE
    /\ est = NoEst
    /\ attempt = 0
    /\ success = "none"
    /\ sent = [approve |-> 0, supply |-> 0, call |-> 1]
    /\ receipt = [approve |-> "none", supply |-> "none", call |-> "none"]
    /\ approve = NoApprove
    /\ failure = NoFailure

NextWait ==
    \/ PollReceipt
    \/ PollNothing
    \/ PollSleep
    \/ WaitTimeout

SpecWait == InitWait /\ [][NextWait]_vars /\ WF_vars(NextWait)

\* One call of from_wei_main, of to_wei_main, or of to_wei_main on the
\* result of from_wei_main.
InitConv ==
    /\ IdleRetryVars
    /\ IdleFlowVars
    /\ cv_token \in BOOLEAN
    /\ cv_decimals \in DecimalsChoices
    /\ cv_back = NoDec
    /\ cv_scale = -1
    /\ cv_raised = NoConvError
    /\ \/ /\ cv_pc = "from"
          /\ cv_x \in 0..MaxUnits
          /\ cv_round \in BOOLEAN
          /\ cv_human = NoDec
       \/ /\ cv_pc = "to"
          /\ cv_x = 0
          /\ cv_round = FALSE
          /\ cv_human \in HumanInputs

NextConv ==
    \/ FromWeiMain
    \/ ToWeiMain
    \/ DecimalsReadFails

SpecConv == InitConv /\ [][NextConv]_vars

\* The deposit flow of main() from the balance pre-check on.
Init ==
    /\ IdleRetryVars
    /\ IdleWaitVars
    /\ IdleReadVars
    /\ IdleConvVars
    /\ pc = "to_wei"
    /\ stage = "none"
    /\ amount_in = 0
    /\ erc20_balance = 0
    /\ native_balance = 0
    /\ gas = 0
    /\ current_allowance = -1
    /\ base_fee = 0
    /\ tx = EmptyTx
    /\ without_gas = FALSE
    /\ est = NoEst
    /\ attempt = 0
    /\ success = "none"
    /\ sent = [approve |-> 0, supply |-> 0, call |-> 0]
    /\ receipt = [approve |-> "none", supply |-> "none", call |-> "none"]
    /\ approve = NoApprove
    /\ failure = NoFailure

Next ==
    \/ ToWeiAmount
    \/ ReadBalances
    \/ ReadBalancesFail
    \/ PreCheck
    \/ ReadAllowance
    \/ LogApproveNeeded
    \/ ApproveBegin
    \/ PrepareTx
    \/ PrepareTxFail
    \/ BuildTx
    \/ BuildTxFail
    \/ EstimateGas
    \/ SignAndSend
    \/ SignAndSendFail
    \/ PollReceipt
    \/ PollNothing
    \/ PollSleep
    \/ WaitTimeout
    \/ ApproveNotConfirmed
    \/ ApproveVerify
    \/ SupplyReport

Spec == Init /\ [][Next]_vars

(***************************************************************************)
(* Claims about retry_on_proxy_error                                       *)
(***************************************************************************)

\* The first n invocations of func all failed with a proxy error.
FirstAllProxy(n) == Len(hist) >= n /\ \A i \in 1..n : hist[i].out = "proxy"

WrapperFinished == w_pc \in {"returned", "raised"}

\* C1 (as claimed): with max_attempts = 3 and the fallback enabled, when func
\* fails with a proxy error on all 3 attempts the wrapper disables the proxy
\* and invokes func exactly once more (4 invocations); a proxy failure of that
\* invocation ends in the terminal ValueError carrying that last error, a
\* success ends with its result returned.
C1_FallbackAfterThreeFailures ==
    (/\ max_attempts = DefaultMaxAttempts
     /\ fallback_no_proxy
     /\ FirstAllProxy(DefaultMaxAttempts)
     /\ WrapperFinished)
    => /\ proxy_disabled
       /\ Len(hist) = DefaultMaxAttempts + 1
       /\ hist[Len(hist)].out = "proxy"
            => w_raised = [type |-> "ValueError", carries |-> Len(hist)]
       /\ hist[Len(hist)].out = "ok"
            => w_pc = "returned" /\ w_result = hist[Len(hist)].val

\* C2: for every k in 1..max_attempts, when func fails with a proxy error on
\* attempts 1..k-1 and succeeds on attempt k, the wrapper has returned the
\* result of attempt k, func was invoked exactly k times, and the proxy was
\* never disabled (self._disable_proxy() was not even called).
C2_SuccessOnAttemptK ==
    \A k \in 1..max_attempts :
        (/\ Len(hist) >= k
         /\ FirstAllProxy(k - 1)
         /\ hist[k].out = "ok")
        => /\ w_pc = "returned"
           /\ w_result = hist[k].val
           /\ Len(hist) = k
           /\ ~proxy_disabled
           /\ disable_calls = 0

\* C2 witness: two proxy failures, then success on the third attempt of 3.
C2_Witness ==
    /\ max_attempts = DefaultMaxAttempts
    /\ Len(hist) = 3
    /\ FirstAllProxy(2)
    /\ hist[3].out = "ok"
    /\ w_pc = "returned"

(***************************************************************************)
(* Claims about the transaction pipeline and the deposit flow              *)
(***************************************************************************)

\* The supply transaction has been prepared (its nonce was fetched) or more.
SupplyUnderWay ==
    \/ sent.supply > 0
    \/ stage = "supply" /\ pc \in {"build", "estimate", "sign", "wait", "poll_sleep", "waited"}

\* C3 (as claimed): an RPC call of the pipeline goes through the retry
\* wrapper, so a proxy failure reaches the caller of an operation only after
\* the call was invoked max_attempts times and once more without the proxy.
C3_ProxyFailureRetriedBeforeSurfaced ==
    (failure.err = "proxy" /\ failure.rpc # "none")
    => failure.tries = DefaultMaxAttempts + 1

\* C4 (as claimed): when the approve transaction confirmed and the allowance
\* read again is still below the deposit amount, the flow halts: no supply
\* transaction is prepared, built, signed or broadcast.
C4_InsufficientAllowanceHalts ==
    (approve.confirmed /\ approve.new_allowance < amount_in) => ~SupplyUnderWay

\* C5 (as claimed): the nonce of the supply transaction is fetched, and the
\* supply transaction broadcast, only after a receipt of the broadcast approve
\* transaction was observed, whatever the approve wait returned.
C5_SupplyOnlyAfterApproveIncluded ==
    (SupplyUnderWay /\ sent.approve > 0) => receipt.approve # "none"

\* C6 (as claimed): when the approve transaction confirmed and the allowance
\* call of the verification raised, approve_usdc returns true.
C6_FailedVerificationReadIsSuccess ==
    (approve.confirmed /\ approve.read_raised) => approve.result = "true"

\* C7 (as claimed): after a confirmed approve the result is true exactly when
\* the allowance read again is >= amount, whatever the decimals reads of the
\* log lines do; without confirmation the result is false.
C7_ResultFollowsAllowance ==
    /\ (approve.confirmed /\ approve.new_allowance >= amount_in) => approve.result = "true"
    /\ (approve.confirmed /\ approve.new_allowance < amount_in) => approve.result = "false"
    /\ (approve.result \in {"true", "false"} /\ ~approve.confirmed) => approve.result = "false"

\* C8: when the allowance read returned a value >= the requested amount, the
\* allowance step succeeds (the flow is in its supply stage) and no approve
\* transaction is prepared, sent or waited for.
C8_SufficientAllowanceSendsNothing ==
    (current_allowance # -1 /\ current_allowance >= amount_in)
    => /\ stage = "supply"
       /\ sent.approve = 0
       /\ approve = NoApprove
       /\ receipt.approve = "none"

\* C8 witness: a positive amount is covered by the allowance read, and the
\* supply transaction is broadcast with no approve transaction before it.
C8_Witness ==
    /\ amount_in > 0
    /\ current_allowance >= amount_in
    /\ sent.supply = 1
    /\ sent.approve = 0
    /\ pc = "wait"

MaxOf(a, b) == IF a >= b THEN a ELSE b

\* C9 (as claimed): the EIP-1559 request prepare_tx built from base_fee has
\* max_priority_fee_per_gas = max(base_fee * 0.1, 1_000_000) and
\* max_fee_per_gas = base_fee * 1.5 + max_priority_fee_per_gas, truncated.
C9_Eip1559FeesExact ==
    "maxPriorityFeePerGas" \in tx.keys
    => /\ tx.maxPriorityFeePerGas = MaxOf(base_fee \div 10, MinPriorityFee)
       /\ tx.maxFeePerGas = (3 * base_fee) \div 2 + tx.maxPriorityFeePerGas

\* C10 (as claimed): sign_and_send_tx with without_gas = false on a
\* transaction without a gas limit, of either fee style, calls the gas
\* estimator; the gas limit signed is ceil(estimate * 1.2) when the estimator
\* answered and is 300,000 only when the estimator call failed.
C10_GasLimitFromEstimator ==
    (stage = "call" /\ est.wanted)
    => /\ est.called
       /\ est.ok => tx.gas = (6 * est.value + 4) \div 5
       /\ tx.gas = FallbackGasLimit => ~est.ok

(***************************************************************************)
(* Claims about Client.wait_tx                                             *)
(***************************************************************************)

\* C11: the first poll that yields a receipt ends the wait, and it is the last
\* poll made (the polls before it yielded nothing); wait_tx returns true when
\* the status is 1 and false for any other status; a status-1 receipt on the
\* first poll returns true after exactly one poll.
C11_ReceiptEndsWait ==
    last_poll.kind = "receipt"
    => /\ pc = "waited"
       /\ polls = attempt + 1
       /\ wait_time = PollInterval * attempt
       /\ success = IF last_poll.status = 1 THEN "true" ELSE "false"
       /\ (attempt = 0 /\ last_poll.status = 1) => (polls = 1 /\ success = "true")

\* C11 witness: a receipt with a status other than 0 and 1 ended the wait on
\* its third poll.
C11_Witness ==
    /\ pc = "waited"
    /\ last_poll = [kind |-> "receipt", status |-> 2]
    /\ polls = 3
    /\ success = "false"

\* C12: in a call of wait_tx in which no poll ever yields a receipt, the
\* 50 polls are made, one 5-unit sleep lies between every two consecutive
\* polls (the n-th poll is made at time 5 * (n - 1)), and the call then
\* returns False: nothing is raised, no 51st poll is made, and every call
\* of wait_tx returns.
C12_TimeoutIsNormalReturn ==
    /\ [](/\ pc \in {"wait", "poll_sleep", "waited"}
          /\ failure = NoFailure
          /\ polls <= WaitMaxAttempts
          /\ wait_time = PollInterval * attempt
          /\ (pc = "wait") => (polls = attempt)
          /\ (pc = "waited" /\ last_poll.kind # "receipt")
               => /\ polls = WaitMaxAttempts
                  /\ attempt = WaitMaxAttempts
                  /\ success = "false")
    /\ <>(pc = "waited")

C12_Witness ==
    /\ pc = "waited"
    /\ last_poll.kind # "receipt"
    /\ polls = WaitMaxAttempts
    /\ success = "false"
    /\ failure = NoFailure

\* C13: a poll of wait_tx that finds nothing, raises TransactionNotFound or
\* raises any other error is never raised to the caller: wait_tx stays
\* undecided, the failed poll uses up one of the 50 iterations, and a
\* receipt of a later poll decides the result by its status.
C13_PollErrorsSwallowed ==
    /\ pc \in {"wait", "poll_sleep", "waited"}
    /\ failure = NoFailure
    /\ polls <= WaitMaxAttempts
    /\ (pc = "poll_sleep")
         => /\ last_poll.kind \in {"null", "notfound", "error"}
            /\ success = "none"
            /\ polls = attempt + 1
    /\ (pc = "wait") => (polls = attempt /\ success = "none")
    /\ (pc = "waited" /\ last_poll.kind = "receipt")
         => /\ attempt < WaitMaxAttempts
            /\ success = IF last_poll.status = 1 THEN "true" ELSE "false"

C13_Witness ==
    /\ pc = "waited"
    /\ attempt = 2
    /\ polls = 3
    /\ last_poll = [kind |-> "receipt", status |-> 1]
    /\ success = "true"
    /\ failure = NoFailure

(***************************************************************************)
(* Claims about retry_on_proxy_error: other errors and the sleeps          *)
(***************************************************************************)

\* C14: an exception of the wrapped function that is not a proxy error is
\* not retried: the invocation that raised it is the last one, the wrapper
\* has raised that very exception, and the proxy has not been disabled.
C14_OtherErrorPropagates ==
    \A i \in 1..Len(hist) :
        hist[i].out = "other"
        => /\ i = Len(hist)
           /\ w_pc = "raised"
           /\ w_raised = [type |-> "other", carries |-> i]
           /\ attempts = i - 1
           /\ sleeps = i - 1
           /\ disable_calls = 0
           /\ ~proxy_disabled

C14_Witness ==
    /\ w_pc = "raised"
    /\ max_attempts = DefaultMaxAttempts
    /\ Len(hist) = 2
    /\ hist[1].out = "proxy"
    /\ hist[2].out = "other"
    /\ w_raised = [type |-> "other", carries |-> 2]

\* C17: the wrapper sleeps once between every two consecutive invocations
\* and never after the last one: when it has returned or raised after n >= 1
\* invocations it has slept n - 1 times, and with no invocation it has not
\* slept.
C17_SleepsOnlyBetweenInvocations ==
    (w_pc \in {"returned", "raised"})
    => sleeps = IF Len(hist) = 0 THEN 0 ELSE Len(hist) - 1

(***************************************************************************)
(* Claims about to_wei_main / from_wei_main                                *)
(***************************************************************************)

\* C15: with a token whose decimals() is not 6, 9 or 18 neither conversion
\* returns: it raises and no value is produced with any scale; a conversion
\* that returns has used the power of ten 18 when no token was given and
\* the token's decimals otherwise, and its result is its argument scaled by
\* exactly that power.
C15_UnsupportedDecimalsRaise ==
    /\ (cv_token /\ cv_decimals \notin SupportedDecimals)
         => /\ cv_pc \in {"from", "to", "raised"}
            /\ cv_scale = -1
            /\ cv_back = NoDec
            /\ (cv_pc = "raised" /\ cv_raised.err \notin Errs)
                 => cv_raised.err = "RuntimeError"
    /\ (cv_pc = "raised") => (cv_back = NoDec /\ cv_raised # NoConvError)
    /\ (cv_scale # -1)
         => /\ cv_scale = IF cv_token THEN cv_decimals ELSE 18
            /\ cv_scale \in SupportedDecimals
    /\ (cv_pc = "done") => (cv_human # NoDec /\ cv_raised = NoConvError)
    /\ (cv_pc = "done" /\ cv_back = NoDec /\ cv_x # 0)
         => cv_human = Dec(cv_x, 0 - cv_scale)
    /\ (cv_pc = "done" /\ cv_back # NoDec /\ cv_human.coef # 0
          /\ cv_human.exp + cv_scale >= 0)
         => cv_back = Dec(cv_human.coef, cv_human.exp + cv_scale)

C15_Witness ==
    /\ cv_pc = "raised"
    /\ cv_token
    /\ cv_decimals = 8
    /\ cv_human.coef > 0
    /\ cv_raised = [op |-> "to_wei_main", err |-> "RuntimeError"]
    /\ cv_back = NoDec

\* C16: from_wei_main followed by to_wei_main with the same token gives
\* back the integer of base units it started from, for decimals 6, 9, 18.
C16_RoundTrip ==
    (cv_round /\ cv_pc = "done")
    => /\ DecimalsUsed \in SupportedDecimals
       /\ cv_back = Dec(cv_x, 0)

C16_Witness ==
    /\ cv_round
    /\ cv_pc = "done"
    /\ cv_token
    /\ cv_decimals = 9
    /\ cv_x = MaxUnits
    /\ cv_human = Dec(MaxUnits, -9)
    /\ cv_back = Dec(MaxUnits, 0)

(***************************************************************************)
(* Claims about the deposit flow of main()                                 *)
(***************************************************************************)

NothingSent == sent = [approve |-> 0, supply |-> 0, call |-> 0]

\* C18: one run of main broadcasts at most one approve transaction and at
\* most one supply transaction, whatever the RPC calls do, and a broadcast
\* of the approve transaction happens only while no supply transaction has
\* been broadcast.
C18_AtMostOneOfEach ==
    /\ [](/\ sent.approve <= 1
          /\ sent.supply <= 1
          /\ (stage = "approve") => (sent.supply = 0))
    /\ [][(sent'.approve > sent.approve)
            => (sent.approve = 0 /\ sent.supply = 0 /\ sent'.supply = 0)]_vars
    /\ [][(sent'.supply > sent.supply) => (sent.supply = 0)]_vars

C18_Witness ==
    /\ sent.approve = 1
    /\ sent.supply = 1
    /\ receipt.approve = "reverted"
    /\ pc = "done"

\* C19: once the balances are read, a deposit amount above the token
\* balance (0 when the balance read failed) or a native balance below the
\* fee estimate keeps the run from going past the pre-check: it exits with
\* failure, no allowance has been read, no transaction has been prepared
\* and none has been sent.
C19_PreCheckStopsRun ==
    /\ balance_raised => (erc20_balance = 0)
    /\ (/\ pc \notin {"to_wei", "balances"}
        /\ (amount_in > erc20_balance \/ native_balance < gas))
       => /\ pc \in {"precheck", "exit1"}
          /\ stage = "none"
          /\ current_allowance = -1
          /\ tx = EmptyTx
          /\ est = NoEst
          /\ NothingSent
          /\ (pc = "exit1") => (failure # NoFailure)

C19_Witness ==
    /\ pc = "exit1"
    /\ balance_raised
    /\ amount_in > 0
    /\ erc20_balance = 0
    /\ native_balance >= gas
    /\ failure = LocalFailure("main", "insufficient USDC")
    /\ NothingSent

\* C20: an allowance read that raises gives main the allowance 0 and no
\* failure of its own; with a positive amount main then takes the approve
\* branch: the supply step is reached only through approve_usdc, and a
\* supply transaction is sent only after an approve transaction was sent.
C20_FailedAllowanceReadIsZero ==
    allowance_raised
    => /\ current_allowance = 0
       /\ failure.op # "get_allowance"
       /\ failure.rpc # "allowance"
       /\ (amount_in > 0)
            => /\ (stage = "supply") => (approve.result \in {"true", "false"})
               /\ (sent.supply >= 1) => (sent.approve = 1)
               /\ (pc = "done") => (sent.approve = 1)

C20_Witness ==
    /\ allowance_raised
    /\ amount_in > 0
    /\ current_allowance = 0
    /\ stage = "approve"
    /\ sent.approve = 1
    /\ pc = "wait"

(***************************************************************************)
(* Claims about retry_on_proxy_error: termination                          *)
(***************************************************************************)

\* C21: whatever max_attempts >= 0, the fallback setting and the pattern
\* of proxy failures, func is invoked at most max_attempts + 1 times, at
\* most max_attempts times with the fallback off (and then the proxy is
\* never disabled); a wrapper that has not returned a result and has not
\* passed on an error of func that is no proxy error has raised the
\* terminal ValueError, and it has done so after at least one invocation.
C21_BoundedInvocationsThenTerminal ==
    /\ Len(hist) <= max_attempts + 1
    /\ (~fallback_no_proxy)
         => /\ Len(hist) <= max_attempts
            /\ disable_calls = 0
            /\ ~proxy_disabled
    /\ (w_pc = "returned")
         => /\ Len(hist) >= 1
            /\ hist[Len(hist)].out = "ok"
            /\ w_result = hist[Len(hist)].val
    /\ (w_pc = "raised" /\ w_raised.type # "other")
         => /\ w_raised.type = "ValueError"
            /\ Len(hist) >= 1

====
